---- MODULE Spec2Model ----
(***************************************************************************)
(* A model of the podcast pipeline: the chunker (chunk_dialogue), the      *)
(* synthesis executors of the two TTS providers (generate_audio of         *)
(* ElevenLabsProvider and CartesiaProvider, and main's handling of their   *)
(* result), and the multi-call script generation                           *)
(* (run_multi_call_generation with its section loop and its transition     *)
(* smoothing).                                                             *)
(*                                                                         *)
(* Texts are sequences of lines; a line is a record that keeps what the    *)
(* code reads of it: its kind (which speaker label it starts with, or      *)
(* none) and its tokens (words with their character length, bracketed      *)
(* tags).  Network calls are inputs: every request is one step whose       *)
(* response is drawn from the classes the code tells apart.                *)
(***************************************************************************)
EXTENDS Integers, Sequences, FiniteSets, TLC

VARIABLES
    \* ---- chunker (chunk_dialogue applied to drawn inputs)
    cd_inputs,      \* the segment list handed to chunk_dialogue
    cd_max_chars,   \* the character budget handed to chunk_dialogue
    cd_chunks,      \* the returned chunks
    cd_pc,          \* "idle" | "ready" | "done"
    \* ---- synthesis executor (generate_audio of a provider, called by main)
    provider,       \* "elevenlabs" | "cartesia"
    script,         \* the script handed to generate_audio: a sequence of lines
    project_name,   \* TRUE when a project name is given (debug artifacts are saved)
    ex_pc,          \* "idle" | "call" | "chunk" | "request" | "combine" | "returned" | "main_done"
    dialogue,       \* the parsed dialogue segments
    chunks,         \* the request units: ElevenLabs chunks, Cartesia segments
    chunk_i,        \* index of the chunk being synthesized (enumerate(..., 1))
    attempt,        \* the retry loop's attempt (range(3): 0, 1, 2)
    requests,       \* log of the requests issued: [chunk, attempt]
    last_resp,      \* class of the response to the latest request, "none" before any
    audio_parts,    \* the accumulated response bodies, each a byte sequence
    debug_files,    \* chunk numbers whose debug artifact is on disk
    ret,            \* what generate_audio returned: [ok, audio, chars]; ok = FALSE is None
    file_written,   \* TRUE once main has saved the audio file
    \* ---- multi-call script generation (run_multi_call_generation)
    word_count,         \* the target word count W
    words_per_call,     \* the per-call word budget B
    gen_pc,             \* "idle" | "outline" | "sections" | "transitions" | "returned"
    sections,           \* the section texts generated so far
    section_requests,   \* log of the section requests issued: section numbers
    failed_section,     \* number of the section whose generation failed, 0 if none
    trans_log,          \* log of the transition rewrite calls: [join, collision, failed, out]
    smoothed_sections,  \* the parts collected by synthesize_transitions
    gen_ret,            \* what run_multi_call_generation returned: [ok, script]
    \* --- normalization and main's final check
    raw_script,         \* the script main holds before audio generation: a sequence of tokens
    cleaned,            \* the results of the successive applications of clean_script_for_audio
    main_pc,            \* "idle" | "clean" | "check" | "audio" | "aborted"
    script_for_audio,   \* the script handed to generate_audio
    marker_at_check,    \* whether the normalized script held a sources marker at the final check
    \* --- the providers' parsers on one script line
    ps_line,            \* the line parsed: [kind, toks]
    ps_cartesia,        \* [done, dialogue]: the Cartesia parser's result
    ps_eleven,          \* [done, dialogue]: the ElevenLabs parser's result
    \* --- the section plan
    plan_word_count,    \* the target word count W
    plan_words_per_call, \* the per-call word budget B
    overshoot_factor,   \* the overshoot factor f, in hundredths (140 is 1.4)
    plan,               \* [done, num_sections, words_per_section]
    \* --- the section loop's continuity context (generate_script_multi_call)
    mc_word_count,      \* the target word count W
    mc_words_per_call,  \* the per-call word budget B
    mc_sections,        \* the section texts generated so far
    previous_ending,    \* the tail kept for the next section's request, None at first
    mc_requests,        \* log of the section requests: [section_num, context]
    mc_pc,              \* "idle" | "loop" | "returned"
    \* --- tune_audio's per-speaker synthesis
    tn_provider,        \* "cartesia" | "elevenlabs"
    tn_segments,        \* the parsed segments: [speaker, text]
    tn_i,               \* index of the segment the loop is at
    tn_requests,        \* log of the requests issued: [segment, status]
    tn_audio_parts,     \* the segments whose response body was appended, in order
    tn_ret,             \* what the function returned: [ok, audio]; ok = FALSE is None
    tn_pc               \* "idle" | "loop" | "returned"

cvars == <<cd_inputs, cd_max_chars, cd_chunks, cd_pc>>
evars == <<provider, script, project_name, ex_pc, dialogue, chunks, chunk_i, attempt,
           requests, last_resp, audio_parts, debug_files, ret, file_written>>
gvars == <<word_count, words_per_call, gen_pc, sections, section_requests,
           failed_section, trans_log, smoothed_sections, gen_ret>>
nvars == <<raw_script, cleaned, main_pc, script_for_audio, marker_at_check>>
psvars == <<ps_line, ps_cartesia, ps_eleven>>
plvars == <<plan_word_count, plan_words_per_call, overshoot_factor, plan>>
mcvars == <<mc_word_count, mc_words_per_call, mc_sections, previous_ending, mc_requests,
            mc_pc>>
tnvars == <<tn_provider, tn_segments, tn_i, tn_requests, tn_audio_parts, tn_ret, tn_pc>>
vars == <<cvars, evars, gvars, nvars, psvars, plvars, mcvars, tnvars>>

\* What each part leaves alone.
notChunker == <<evars, gvars, nvars, psvars, plvars, mcvars, tnvars>>
notExecutor == <<cvars, gvars, nvars, psvars, plvars, mcvars, tnvars>>
notGeneration == <<cvars, evars, nvars, psvars, plvars, mcvars, tnvars>>
notNormalizer == <<cvars, evars, gvars, psvars, plvars, mcvars, tnvars>>
notParser == <<cvars, evars, gvars, nvars, plvars, mcvars, tnvars>>
notPlanner == <<cvars, evars, gvars, nvars, psvars, mcvars, tnvars>>
notContinuity == <<cvars, evars, gvars, nvars, psvars, plvars, tnvars>>
notTune == <<cvars, evars, gvars, nvars, psvars, plvars, mcvars>>

\* ------------------------------------------------------------------ helpers

RECURSIVE SumLen(_)
\* sum(len(item['text']) for item in items)
SumLen(items) ==
    IF items = <<>> THEN 0 ELSE items[1].len + SumLen(Tail(items))

RECURSIVE Flatten(_)
\* the concatenation of a sequence of sequences, in order
Flatten(ss) ==
    IF ss = <<>> THEN <<>> ELSE ss[1] \o Flatten(Tail(ss))

\* all sequences over S of length at most n
SeqsUpTo(S, n) == UNION {[1..k -> S] : k \in 0..n}

\* run_multi_call_generation is not called.
GenerationIdle ==
    /\ word_count = 0
    /\ words_per_call = 0
    /\ gen_pc = "idle"
    /\ sections = <<>>
    /\ section_requests = <<>>
    /\ failed_section = 0
    /\ trans_log = <<>>
    /\ smoothed_sections = <<>>
    /\ gen_ret = [ok |-> FALSE, script |-> <<>>]

NormalizerIdle ==
    /\ raw_script = <<>>
    /\ cleaned = <<>>
    /\ main_pc = "idle"
    /\ script_for_audio = <<>>
    /\ marker_at_check = FALSE

ParserIdle ==
    /\ ps_line = [kind |-> "blank", toks |-> <<>>]
    /\ ps_cartesia = [done |-> FALSE, dialogue |-> <<>>]
    /\ ps_eleven = [done |-> FALSE, dialogue |-> <<>>]

PlannerIdle ==
    /\ plan_word_count = 0
    /\ plan_words_per_call = 0
    /\ overshoot_factor = 0
    /\ plan = [done |-> FALSE, num_sections |-> 0, words_per_section |-> 0]

\* generate_script_multi_call's continuity is not followed.
ContinuityIdle ==
    /\ mc_word_count = 0
    /\ mc_words_per_call = 0
    /\ mc_sections = <<>>
    /\ previous_ending = [kind |-> "None"]
    /\ mc_requests = <<>>
    /\ mc_pc = "idle"

\* tune_audio is not run.
TuneIdle ==
    /\ tn_provider = "none"
    /\ tn_segments = <<>>
    /\ tn_i = 0
    /\ tn_requests = <<>>
    /\ tn_audio_parts = <<>>
    /\ tn_ret = [ok |-> FALSE, audio |-> <<>>]
    /\ tn_pc = "idle"

\* ------------------------------------------------------------------ chunker

\* Bounds of the chunker's inputs.
MaxItems == 4
MaxItemLen == 2
MaxBudget == 3

\* A dialogue item as chunk_dialogue reads it: the voice and len(item['text']).
Items == [voice : {"A", "B"}, len : 0..MaxItemLen]

RECURSIVE ChunkLoopDropsItem(_, _, _, _, _, _)
\* chunk_dialogue with the closing branch forgetting the item that did not fit
ChunkLoopDropsItem(inputs, max_chars, k, closed, current_chunk, current_length) ==
    IF k > Len(inputs)
    THEN IF current_chunk # <<>> THEN Append(closed, current_chunk) ELSE closed
    ELSE LET item == inputs[k]
             item_length == item.len
         IN  IF current_length + item_length > max_chars /\ current_chunk # <<>>
             THEN ChunkLoopDropsItem(inputs, max_chars, k + 1,
                                     Append(closed, current_chunk), <<>>, 0)
             ELSE ChunkLoopDropsItem(inputs, max_chars, k + 1, closed,
                                     Append(current_chunk, item),
                                     current_length + item_length)

RECURSIVE ChunkLoopIgnoresItemLength(_, _, _, _, _, _)
\* chunk_dialogue with the budget test looking at current_length alone
ChunkLoopIgnoresItemLength(inputs, max_chars, k, closed, current_chunk, current_length) ==
    IF k > Len(inputs)
    THEN IF current_chunk # <<>> THEN Append(closed, current_chunk) ELSE closed
    ELSE LET item == inputs[k]
             item_length == item.len
         IN  IF current_length > max_chars /\ current_chunk # <<>>
             THEN ChunkLoopIgnoresItemLength(inputs, max_chars, k + 1,
                                             Append(closed, current_chunk),
                                             <<item>>, item_length)
             ELSE ChunkLoopIgnoresItemLength(inputs, max_chars, k + 1, closed,
                                             Append(current_chunk, item),
                                             current_length + item_length)

RECURSIVE ChunkLoop(_, _, _, _, _, _)
\* The for-loop of chunk_dialogue from item k on, and the trailing flush.
ChunkLoop(inputs, max_chars, k, closed, current_chunk, current_length) ==
    IF k > Len(inputs)
    THEN IF current_chunk # <<>> THEN Append(closed, current_chunk) ELSE closed
    ELSE LET item == inputs[k]
             item_length == item.len
         IN  IF current_length + item_length > max_chars /\ current_chunk # <<>>
             THEN ChunkLoop(inputs, max_chars, k + 1,
                            Append(closed, current_chunk), <<item>>, item_length)
             ELSE ChunkLoop(inputs, max_chars, k + 1, closed,
                            Append(current_chunk, item),
                            current_length + item_length)

chunk_dialogue_drops_item(inputs, max_chars) ==
    ChunkLoopDropsItem(inputs, max_chars, 1, <<>>, <<>>, 0)

chunk_dialogue_ignores_item_length(inputs, max_chars) ==
    ChunkLoopIgnoresItemLength(inputs, max_chars, 1, <<>>, <<>>, 0)

\* chunk_dialogue(inputs, max_chars): the same code in ElevenLabsProvider and in
\* podcast_pipeline.
chunk_dialogue(inputs, max_chars) ==
    ChunkLoop(inputs, max_chars, 1, <<>>, <<>>, 0)

ChunkerIdle ==
    /\ cd_inputs = <<>>
    /\ cd_max_chars = 0
    /\ cd_chunks = <<>>
    /\ cd_pc = "idle"

ChunkerInit ==
    /\ cd_inputs \in SeqsUpTo(Items, MaxItems)
    /\ cd_max_chars \in 0..MaxBudget
    /\ cd_chunks = <<>>
    /\ cd_pc = "ready"

\* A call chunk_dialogue(cd_inputs, cd_max_chars).
CallChunkDialogue ==
    /\ cd_pc = "ready"
    /\ cd_chunks' = chunk_dialogue(cd_inputs, cd_max_chars)
    /\ cd_pc' = "done"
    /\ UNCHANGED <<cd_inputs, cd_max_chars>>

ChunkerNext == CallChunkDialogue /\ UNCHANGED notChunker

\* ------------------------------------------------------------------ scripts

\* A token of a line's text: a word of len characters, or a bracketed [tag].
Word(n) == [tag |-> FALSE, len |-> n]
TagTok == [tag |-> TRUE, len |-> 9]

\* A line: kind "A"/"B" (it starts with the label "Speaker A:"/"Speaker B:"),
\* "cont" (other text), "hdr" (it starts with '#' or '---') or "blank"; toks is the
\* text after the label (of the whole line for "cont").
Line(k, toks) == [kind |-> k, toks |-> toks]

RECURSIVE SumTok(_)
SumTok(toks) == IF toks = <<>> THEN 0 ELSE toks[1].len + SumTok(Tail(toks))

\* len of the tokens joined by single spaces
TextLen(toks) == IF toks = <<>> THEN 0 ELSE SumTok(toks) + Len(toks) - 1

RECURSIVE JoinLen(_)
\* len(' '.join(current_text)) for the texts of the lines collected
JoinLen(texts) ==
    IF texts = <<>> THEN 0
    ELSE IF Len(texts) = 1 THEN TextLen(texts[1])
    ELSE TextLen(texts[1]) + 1 + JoinLen(Tail(texts))

\* dialogue.append({'voice_id': ..., 'text': ' '.join(current_text).strip()})
Flush(dlg, current_speaker, current_text) ==
    IF current_text # <<>> /\ current_speaker # "none"
    THEN Append(dlg, [voice |-> current_speaker, len |-> JoinLen(current_text)])
    ELSE dlg

RECURSIVE ElevenLabsParseLoop(_, _, _, _, _)
\* The line loop of ElevenLabsProvider.parse_script_to_dialogue from line k on,
\* and the flush of the final segment.
ElevenLabsParseLoop(lines, k, dlg, current_speaker, current_text) ==
    IF k > Len(lines) THEN Flush(dlg, current_speaker, current_text)
    ELSE LET line == lines[k] IN
         IF line.kind = "blank"
         THEN ElevenLabsParseLoop(lines, k + 1, dlg, current_speaker, current_text)
         ELSE IF line.kind \in {"A", "B"}
         THEN ElevenLabsParseLoop(lines, k + 1,
                                  Flush(dlg, current_speaker, current_text),
                                  line.kind,
                                  IF line.toks # <<>> THEN <<line.toks>> ELSE <<>>)
         ELSE IF current_speaker # "none" /\ line.kind # "hdr"
         THEN ElevenLabsParseLoop(lines, k + 1, dlg, current_speaker,
                                  Append(current_text, line.toks))
         ELSE ElevenLabsParseLoop(lines, k + 1, dlg, current_speaker, current_text)

\* ElevenLabsProvider.parse_script_to_dialogue; None is the empty sequence.
ElevenLabsParse(lines) == ElevenLabsParseLoop(lines, 1, <<>>, "none", <<>>)

RECURSIVE WordRuns(_, _)
\* The runs of words between the tags of a text, in order: the clean texts that
\* _split_text_at_emotions cuts a line into (cur is the run being collected).
WordRuns(toks, cur) ==
    IF toks = <<>> THEN (IF cur # <<>> THEN <<cur>> ELSE <<>>)
    ELSE IF toks[1].tag
         THEN (IF cur # <<>> THEN <<cur>> ELSE <<>>) \o WordRuns(Tail(toks), <<>>)
         ELSE WordRuns(Tail(toks), Append(cur, toks[1]))

\* The segments CartesiaProvider.parse_script_to_dialogue appends for one line.
CartesiaLineSegments(line) ==
    IF line.kind \in {"A", "B"} /\ line.toks # <<>>
    THEN LET runs == WordRuns(line.toks, <<>>)
         IN  [r \in 1..Len(runs) |-> [voice |-> line.kind, len |-> TextLen(runs[r])]]
    ELSE <<>>

RECURSIVE CartesiaParse(_)
\* CartesiaProvider.parse_script_to_dialogue
CartesiaParse(lines) ==
    IF lines = <<>> THEN <<>>
    ELSE CartesiaLineSegments(lines[1]) \o CartesiaParse(Tail(lines))

\* ------------------------------------------------------------------ executor

\* Bound of the scripts handed to generate_audio.
MaxLines == 3

\* The lines the scripts are made of.
ScriptLines ==
    { Line("A", <<Word(2000)>>),
      Line("B", <<TagTok, Word(2400)>>),
      Line("B", <<TagTok>>),
      Line("cont", <<Word(2600)>>),
      Line("hdr", <<Word(5)>>) }

Scripts == SeqsUpTo(ScriptLines, MaxLines)

\* total_length > 5000 ... chunk_dialogue(inputs, max_chars=4500)
ChunkThreshold == 5000
ChunkBudget == 4500
\* for attempt in range(3) ... attempt < 2 (ElevenLabs)
ElevenLabsRange == 3
ElevenLabsLastRetry == 2
\* max_retries = 3 (Cartesia)
max_retries == 3

\* The classes of what a request can come back with.
OkOther == "ok_other"          \* a status other than 200 that raise_for_status accepts
HttpErrors == {"e4xx", "e500", "e5xx"}
Statuses == {"ok200", OkOther} \cup HttpErrors
\* requests.exceptions: ConnectionError (a reset), ConnectTimeout (a ConnectionError
\* and a Timeout), ReadTimeout (a Timeout only)
NetErrors == {"reset", "connect_timeout", "read_timeout"}
Responses == Statuses \cup NetErrors

None == [ok |-> FALSE, audio |-> <<>>, chars |-> 0]

\* if not dialogue
NoDialogueNever(d) == FALSE
NoDialogue(d) == d = <<>>

\* ElevenLabs: every response but a 200 is fatal at once
ElevenLabsOutcomeTreatsErrorAsAudio(resp, att) ==
    IF resp \in NetErrors
    THEN (IF att < ElevenLabsLastRetry THEN "continue" ELSE "return_none")
    ELSE "append_break"

\* ElevenLabs: the retry test off by one (attempt < 3)
ElevenLabsOutcomeRetriesForever(resp, att) ==
    IF resp \in NetErrors \cup HttpErrors
    THEN (IF att < ElevenLabsLastRetry + 1 THEN "continue" ELSE "return_none")
    ELSE "append_break"

\* What one iteration of ElevenLabs' retry loop does with a response.
ElevenLabsOutcome(resp, att) ==
    IF resp \in NetErrors
    THEN \* except (Timeout, RequestException)
         (IF att < ElevenLabsLastRetry THEN "continue" ELSE "return_none")
    ELSE IF resp # "ok200"
    THEN IF resp = "e500" /\ att < ElevenLabsLastRetry
         THEN "continue"
         ELSE IF resp \in HttpErrors
              THEN \* raise_for_status() raises HTTPError, a RequestException
                   (IF att < ElevenLabsLastRetry THEN "continue" ELSE "return_none")
              ELSE "append_break"
    ELSE "append_break"

\* What one iteration of Cartesia's retry loop does with a response.
CartesiaOutcome(resp, att) ==
    IF resp = "ok200" THEN "append_break"
    ELSE IF resp \in Statuses THEN "return_none"
    ELSE IF resp \in {"reset", "connect_timeout"}
    THEN \* except (ConnectionError, ChunkedEncodingError, ConnectionResetError)
         (IF att < max_retries - 1 THEN "continue" ELSE "return_none")
    ELSE \* except Exception
         "return_none"

\* The body of the response to the request for chunk k: one byte that names it.
Body(k, resp) == <<[chunk |-> k, status |-> resp]>>

ExecutorIdle ==
    /\ provider = "none"
    /\ script = <<>>
    /\ project_name = FALSE
    /\ ex_pc = "idle"
    /\ dialogue = <<>>
    /\ chunks = <<>>
    /\ chunk_i = 0
    /\ attempt = 0
    /\ requests = <<>>
    /\ last_resp = "none"
    /\ audio_parts = <<>>
    /\ debug_files = {}
    /\ ret = None
    /\ file_written = FALSE

ExecutorInit ==
    /\ provider \in {"elevenlabs", "cartesia"}
    /\ script \in Scripts
    /\ project_name \in BOOLEAN
    /\ ex_pc = "call"
    /\ dialogue = <<>>
    /\ chunks = <<>>
    /\ chunk_i = 0
    /\ attempt = 0
    /\ requests = <<>>
    /\ last_resp = "none"
    /\ audio_parts = <<>>
    /\ debug_files = {}
    /\ ret = None
    /\ file_written = FALSE

\* generate_audio up to the chunk loop: parse, return on no dialogue, chunk.
StartWith(dlg, units) ==
    /\ ex_pc = "call"
    /\ dialogue' = dlg
    /\ IF NoDialogue(dlg)
       THEN /\ ret' = None
            /\ ex_pc' = "returned"
            /\ UNCHANGED <<chunks, chunk_i>>
       ELSE /\ chunks' = units
            /\ chunk_i' = 1
            /\ ex_pc' = IF units = <<>> THEN "combine" ELSE "chunk"
            /\ ret' = ret
    /\ UNCHANGED <<provider, script, project_name, attempt, requests, last_resp,
                   audio_parts, debug_files, file_written>>

\* ElevenLabs: the dialogue sent as one payload whatever its length
ElevenLabsStartSendsWhole ==
    /\ provider = "elevenlabs"
    /\ StartWith(ElevenLabsParse(script), <<ElevenLabsParse(script)>>)

\* ElevenLabsProvider.generate_audio: one request per chunk of the dialogue.
ElevenLabsStart ==
    /\ provider = "elevenlabs"
    /\ LET dlg == ElevenLabsParse(script)
           total_length == SumLen(dlg)
       IN  StartWith(dlg, IF total_length > ChunkThreshold
                          THEN chunk_dialogue(dlg, ChunkBudget)
                          ELSE <<dlg>>)

\* CartesiaProvider.generate_audio: one request per segment of the dialogue.
CartesiaStart ==
    /\ provider = "cartesia"
    /\ LET dlg == CartesiaParse(script)
       IN  StartWith(dlg, [k \in 1..Len(dlg) |-> <<dlg[k]>>])

BeginChunkSavesNoDebug ==
    /\ ex_pc = "chunk"
    /\ attempt' = 0
    /\ ex_pc' = "request"
    /\ UNCHANGED <<provider, script, project_name, dialogue, chunks, chunk_i, requests,
                   last_resp, audio_parts, ret, file_written, debug_files>>

\* The head of the chunk loop's body: the debug artifact, then the retry loop.
BeginChunk ==
    /\ ex_pc = "chunk"
    /\ debug_files' = IF project_name THEN debug_files \cup {chunk_i} ELSE debug_files
    /\ attempt' = 0
    /\ ex_pc' = "request"
    /\ UNCHANGED <<provider, script, project_name, dialogue, chunks, chunk_i, requests,
                   last_resp, audio_parts, ret, file_written>>

\* The chunk loop goes on to the next chunk, or is over.
NextChunk ==
    /\ IF chunk_i < Len(chunks)
       THEN chunk_i' = chunk_i + 1 /\ ex_pc' = "chunk"
       ELSE chunk_i' = chunk_i /\ ex_pc' = "combine"
    /\ attempt' = attempt

\* One iteration of the retry loop: the request, and what the code does with the
\* response; range is the number of iterations the for loop allows.
AttemptStep(resp, outcome, range) ==
    /\ ex_pc = "request"
    /\ requests' = Append(requests, [chunk |-> chunk_i, attempt |-> attempt])
    /\ last_resp' = resp
    /\ CASE outcome = "append_break" ->
              /\ audio_parts' = Append(audio_parts, Body(chunk_i, resp))
              /\ NextChunk
              /\ ret' = ret
         [] outcome = "continue" ->
              /\ audio_parts' = audio_parts
              /\ ret' = ret
              /\ IF attempt + 1 < range
                 THEN /\ attempt' = attempt + 1
                      /\ UNCHANGED <<chunk_i, ex_pc>>
                 ELSE NextChunk
         [] outcome = "return_none" ->
              /\ ret' = None
              /\ ex_pc' = "returned"
              /\ UNCHANGED <<audio_parts, chunk_i, attempt>>
    /\ UNCHANGED <<provider, script, project_name, dialogue, chunks, debug_files,
                   file_written>>

ElevenLabsAttempt(resp) ==
    /\ provider = "elevenlabs"
    /\ AttemptStep(resp, ElevenLabsOutcome(resp, attempt), ElevenLabsRange)

CartesiaAttempt(resp) ==
    /\ provider = "cartesia"
    /\ AttemptStep(resp, CartesiaOutcome(resp, attempt), max_retries)

\* b''.join(audio_parts) if len(audio_parts) > 1 else audio_parts[0]
ElevenLabsJoinFirstOnly(parts) == parts[1]
ElevenLabsJoin(parts) == IF Len(parts) > 1 THEN Flatten(parts) ELSE parts[1]

\* ElevenLabs after the chunk loop: concatenate and return.
ElevenLabsCombine ==
    /\ provider = "elevenlabs"
    /\ ex_pc = "combine"
    /\ audio_parts # <<>>
    /\ ret' = [ok |-> TRUE, audio |-> ElevenLabsJoin(audio_parts),
               chars |-> SumLen(dialogue)]
    /\ ex_pc' = "returned"
    /\ UNCHANGED <<provider, script, project_name, dialogue, chunks, chunk_i, attempt,
                   requests, last_resp, audio_parts, debug_files, file_written>>

\* Cartesia after the segment loop: crossfade the segments, export one MP3, return;
\* with no audio chunk the function returns nothing.
CartesiaCombine ==
    /\ provider = "cartesia"
    /\ ex_pc = "combine"
    /\ ret' = IF audio_parts # <<>>
              THEN [ok |-> TRUE, audio |-> <<[mp3_of |-> audio_parts]>>,
                    chars |-> SumLen(dialogue)]
              ELSE None
    /\ ex_pc' = "returned"
    /\ UNCHANGED <<provider, script, project_name, dialogue, chunks, chunk_i, attempt,
                   requests, last_resp, audio_parts, debug_files, file_written>>

\* if not audio_data
NoAudio(r) == ~r.ok \/ r.audio = <<>>

\* main after generate_audio: stop on no audio, else save_audio.
MainHandleAudio ==
    /\ ex_pc = "returned"
    /\ file_written' = ~NoAudio(ret)
    /\ ex_pc' = "main_done"
    /\ UNCHANGED <<provider, script, project_name, dialogue, chunks, chunk_i, attempt,
                   requests, last_resp, audio_parts, debug_files, ret>>

ExecutorNext ==
    \/ ElevenLabsStart /\ UNCHANGED notExecutor
    \/ CartesiaStart /\ UNCHANGED notExecutor
    \/ BeginChunk /\ UNCHANGED notExecutor
    \/ \E resp \in Responses : ElevenLabsAttempt(resp) /\ UNCHANGED notExecutor
    \/ \E resp \in Responses : CartesiaAttempt(resp) /\ UNCHANGED notExecutor
    \/ ElevenLabsCombine /\ UNCHANGED notExecutor
    \/ CartesiaCombine /\ UNCHANGED notExecutor
    \/ MainHandleAudio /\ UNCHANGED notExecutor

InitExecutor ==
    ExecutorInit /\ ChunkerIdle /\ GenerationIdle /\ NormalizerIdle /\ ParserIdle /\ PlannerIdle
    /\ ContinuityIdle /\ TuneIdle

SpecExecutor == InitExecutor /\ [][ExecutorNext]_vars

InitChunker ==
    ChunkerInit /\ ExecutorIdle /\ GenerationIdle /\ NormalizerIdle /\ ParserIdle /\ PlannerIdle
    /\ ContinuityIdle /\ TuneIdle

SpecChunker == InitChunker /\ [][ChunkerNext]_vars

\* ------------------------------------------------------------------ generation

\* Bound of the generated sections: the speaker lines of a section.
MaxSegs == 9

\* The numbers of speaker lines the sections are drawn with: none, one, a window's
\* worth, one more, and the most.
SegCounts == {0, 1, 4, 5, MaxSegs}

\* The target word counts and per-call budgets the runs are drawn from.
GenWordCounts == {400, 900, 1500}
GenWordsPerCall == {500, 800}

\* math.ceil(word_count / words_per_call)
CeilDiv(a, b) == (a + b - 1) \div b

num_sections == CeilDiv(word_count, words_per_call)

\* A line of generated text: its kind ("A"/"B": it starts with that speaker's
\* label; "cont": other text; "blank"), the section whose response it came in
\* (0: a rewrite response) and its place there.
BlankLine == [kind |-> "blank", sec |-> 0, idx |-> 0]

\* A text is the sequence of its lines (text.split('\n')), so '' is one blank line;
\* None is no text at all.
EmptyText == <<BlankLine>>
NoneText == <<>>

Other(speaker) == IF speaker = "A" THEN "B" ELSE "A"

\* '\n'.join(texts)
Join(texts) == IF texts = <<>> THEN EmptyText ELSE Flatten(texts)

\* '\n'.join([seg[1] for seg in segments])
JoinSegments(segments) == IF segments = <<>> THEN EmptyText ELSE segments

\* the lines of a text that are not blank
NonBlank(text) == SelectSeq(text, LAMBDA l : l.kind # "blank")

RECURSIVE Strip(_)
\* text.strip(), on lines: blank lines at either end go
Strip(text) ==
    IF Len(text) <= 1 THEN (IF NonBlank(text) = <<>> THEN EmptyText ELSE text)
    ELSE IF text[1].kind = "blank" THEN Strip(Tail(text))
    ELSE IF text[Len(text)].kind = "blank" THEN Strip(SubSeq(text, 1, Len(text) - 1))
    ELSE text

\* The texts a section call can come back with: k speaker lines that alternate
\* from speaker first, with or without a continuation line after the first of them.
SectionKinds(k, first, cont) ==
    LET spk == [j \in 1..k |-> IF j % 2 = 1 THEN first ELSE Other(first)]
    IN  IF ~cont THEN spk
        ELSE IF k = 0 THEN <<"cont">>
        ELSE <<spk[1], "cont">> \o Tail(spk)

SectionText(n, kinds) ==
    IF kinds = <<>> THEN EmptyText
    ELSE [j \in 1..Len(kinds) |-> [kind |-> kinds[j], sec |-> n, idx |-> j]]

\* What generate_script_section can return for section n: None (the call raised),
\* or the response text.
SectionResponses(n) ==
    {NoneText} \cup
    { SectionText(n, SectionKinds(k, first, cont)) :
          k \in SegCounts, first \in {"A", "B"}, cont \in BOOLEAN }

\* if not section_text
SectionFailedNever(section_text) == FALSE
SectionFailed(section_text) == section_text = NoneText \/ section_text = EmptyText

\* parse_script_to_segments: the speaker lines, each with its speaker
parse_script_to_segments(text) == SelectSeq(text, LAMBDA l : l.kind \in {"A", "B"})

\* The window size of the transition smoothing, and the length above which a middle
\* section keeps a part of its own.
Window == 4
MiddleMin == 8

\* s[-n:] if len(s) >= n else s
LastN(s, n) == IF Len(s) >= n THEN SubSeq(s, Len(s) - n + 1, Len(s)) ELSE s
\* s[:n] if len(s) >= n else s
FirstN(s, n) == IF Len(s) >= n THEN SubSeq(s, 1, n) ELSE s

\* The kept part of the first section: parsed[:-4] when it has more than 4 segments.
FirstKept(parsed) ==
    IF Len(parsed) > Window
    THEN <<JoinSegments(SubSeq(parsed, 1, Len(parsed) - Window))>>
    ELSE <<>>

\* The kept part of the last section: parsed[4:] when it has more than 4 segments.
LastKept(parsed) ==
    IF Len(parsed) > Window
    THEN <<JoinSegments(SubSeq(parsed, Window + 1, Len(parsed)))>>
    ELSE <<>>

\* The kept part of a middle section: parsed[4:-4] when it has more than 8 segments.
MiddleKept(parsed) ==
    IF Len(parsed) > MiddleMin
    THEN <<JoinSegments(SubSeq(parsed, Window + 1, Len(parsed) - Window))>>
    ELSE <<>>

\* What a rewrite call can come back with: "fail" (the call raised), or a text: the
\* windows with a bridging line of the other speaker between them, the windows with
\* the first line of the second dropped (merged), or blank lines only.
RewriteOutcomes == {"fail", "bridge", "merge", "blank"}

RewriteText(outcome, join, before, after) ==
    CASE outcome = "bridge" ->
             before
             \o <<[kind |-> IF before = <<>> THEN "A" ELSE Other(before[Len(before)].kind),
                   sec |-> 0, idx |-> join]>>
             \o after
      [] outcome = "merge" ->
             JoinSegments(before \o (IF after = <<>> THEN <<>> ELSE Tail(after)))
      [] OTHER -> <<BlankLine, BlankLine>>

\* before_text + '\n' + after_text
NaiveConcatBeforeOnly(before_text, after_text) == before_text
NaiveConcat(before_text, after_text) == before_text \o after_text

\* collision = last_speaker == first_speaker, None standing for an empty window
Collision(segments_before, segments_after) ==
    LET last_speaker == IF segments_before # <<>>
                        THEN segments_before[Len(segments_before)].kind ELSE "None"
        first_speaker == IF segments_after # <<>> THEN segments_after[1].kind ELSE "None"
    IN  last_speaker = first_speaker

\* synthesize_single_transition: the text it returns for the outcome of its call.
synthesize_single_transition(segments_before, segments_after, outcome, join) ==
    LET before_text == JoinSegments(segments_before)
        after_text == JoinSegments(segments_after)
    IN  IF outcome = "fail"
        THEN NaiveConcat(before_text, after_text)
        ELSE Strip(RewriteText(outcome, join, segments_before, segments_after))

RECURSIVE CleanLoop(_, _, _, _)
\* The line loop of clean_script_format from line k on.
CleanLoop(lines, k, cleaned_lines, in_dialogue) ==
    IF k > Len(lines) THEN cleaned_lines
    ELSE LET line == lines[k] IN
         IF line.kind \in {"blank", "hdr"}
         THEN CleanLoop(lines, k + 1, cleaned_lines, in_dialogue)
         ELSE IF line.kind = "sources" THEN cleaned_lines
         ELSE IF line.kind \in {"A", "B"}
         THEN CleanLoop(lines, k + 1, Append(cleaned_lines, line), TRUE)
         ELSE IF in_dialogue
         THEN CleanLoop(lines, k + 1, Append(cleaned_lines, line), in_dialogue)
         ELSE CleanLoop(lines, k + 1, cleaned_lines, in_dialogue)

\* clean_script_format
clean_script_format(text) == JoinSegments(CleanLoop(text, 1, <<>>, FALSE))

\* final_script = '\n'.join([s for s in smoothed_sections if s.strip()])
FinalScript(parts) ==
    Join(SelectSeq(parts, LAMBDA t : NonBlank(t) # <<>>))

NoScript == [ok |-> FALSE, script |-> <<>>]

GenerationInit ==
    /\ word_count \in GenWordCounts
    /\ words_per_call \in GenWordsPerCall
    /\ gen_pc = "outline"
    /\ sections = <<>>
    /\ section_requests = <<>>
    /\ failed_section = 0
    /\ trans_log = <<>>
    /\ smoothed_sections = <<>>
    /\ gen_ret = NoScript

\* Phase 3 of run_multi_call_generation: the outline call; no outline, no script.
GenerateOutline(outline_ok) ==
    /\ gen_pc = "outline"
    /\ IF outline_ok
       THEN gen_pc' = "sections" /\ gen_ret' = gen_ret
       ELSE gen_pc' = "returned" /\ gen_ret' = NoScript
    /\ UNCHANGED <<word_count, words_per_call, sections, section_requests,
                   failed_section, trans_log, smoothed_sections>>

\* One iteration of generate_script_multi_call's loop: the call for the next
\* section and what follows it up to the next call: the abort on failure; after the
\* last section, run_multi_call_generation's single-section return, or the start of
\* synthesize_transitions (the first section's kept part).
GenerateSection(section_text) ==
    /\ gen_pc = "sections"
    /\ LET section_num == Len(sections) + 1 IN
       /\ section_text \in SectionResponses(section_num)
       /\ section_requests' = Append(section_requests, section_num)
       /\ failed_section' = IF section_text \in {NoneText, EmptyText}
                            THEN section_num ELSE failed_section
       /\ IF SectionFailed(section_text)
          THEN /\ gen_ret' = NoScript
               /\ gen_pc' = "returned"
               /\ UNCHANGED <<sections, smoothed_sections>>
          ELSE /\ sections' = Append(sections, section_text)
               /\ IF section_num < num_sections
                  THEN UNCHANGED <<gen_pc, gen_ret, smoothed_sections>>
                  ELSE IF num_sections > 1
                  THEN /\ gen_pc' = "transitions"
                       /\ smoothed_sections' =
                              FirstKept(parse_script_to_segments(sections'[1]))
                       /\ gen_ret' = gen_ret
                  ELSE /\ gen_pc' = "returned"
                       /\ gen_ret' = [ok |-> TRUE,
                                      script |-> clean_script_format(sections'[1])]
                       /\ smoothed_sections' = smoothed_sections
    /\ UNCHANGED <<word_count, words_per_call, trans_log>>

\* i == len(sections) - 1 holds in the iteration after join's: join is the last join
LastJoinIsFirst(join, secs) == TRUE
LastJoin(join, secs) == join + 1 = Len(secs)

\* One rewrite call of synthesize_transitions, for the join after section
\* Len(trans_log) + 1, and what follows it up to the next call: the kept part of a
\* middle section, and after the last join the last section's kept part, the final
\* join and run_multi_call_generation's post-processing and return.
SynthesizeTransition(outcome) ==
    /\ gen_pc = "transitions"
    /\ LET join == Len(trans_log) + 1
           parsed_before == parse_script_to_segments(sections[join])
           parsed_after == parse_script_to_segments(sections[join + 1])
           segments_before == LastN(parsed_before, Window)
           segments_after == FirstN(parsed_after, Window)
           smoothed_transition ==
               synthesize_single_transition(segments_before, segments_after,
                                            outcome, join)
           parts == smoothed_sections
                    \o <<smoothed_transition>>
                    \o (IF join > 1 THEN MiddleKept(parsed_before) ELSE <<>>)
                    \o (IF LastJoin(join, sections) THEN LastKept(parsed_after) ELSE <<>>)
       IN  /\ trans_log' = Append(trans_log,
                                  [join |-> join,
                                   collision |-> Collision(segments_before, segments_after),
                                   failed |-> (outcome = "fail"),
                                   out |-> smoothed_transition])
           /\ smoothed_sections' = parts
           /\ IF LastJoin(join, sections)
              THEN /\ gen_pc' = "returned"
                   /\ gen_ret' = [ok |-> TRUE,
                                  script |-> clean_script_format(FinalScript(parts))]
              ELSE UNCHANGED <<gen_pc, gen_ret>>
    /\ UNCHANGED <<word_count, words_per_call, sections, section_requests, failed_section>>

GenerationNext ==
    \/ \E outline_ok \in BOOLEAN : GenerateOutline(outline_ok) /\ UNCHANGED notGeneration
    \/ \E section_text \in SectionResponses(Len(sections) + 1) :
           GenerateSection(section_text) /\ UNCHANGED notGeneration
    \/ \E outcome \in RewriteOutcomes :
           SynthesizeTransition(outcome) /\ UNCHANGED notGeneration

InitGeneration ==
    GenerationInit /\ ChunkerIdle /\ ExecutorIdle /\ NormalizerIdle /\ ParserIdle /\ PlannerIdle
    /\ ContinuityIdle /\ TuneIdle

SpecGeneration == InitGeneration /\ [][GenerationNext]_vars

\* ------------------------------------------------------------------ normalization

\* Bound of the scripts normalized: the tokens of a script.
MaxToks == 4

\* A script is a sequence of tokens, each a piece of text:
\*   "nl" a newline, "sp" a space, "w" a word, "spk" 'Speaker A:',
\*   "src" 'SOURCES FOUND:', "hsrc" '##SOURCES FOUND:', "meta" "I'll conduct",
\*   "sep" '---', "num" '1. **x**'; "hashes" is the '##' that a cut inside "hsrc" leaves.
ScriptTokens == {"nl", "sp", "w", "spk", "src", "hsrc", "meta", "sep", "num"}
Whitespace == {"nl", "sp"}

TokenScripts == SeqsUpTo(ScriptTokens, MaxToks)

\* least element of a non-empty set of numbers
Least(S) == CHOOSE x \in S : \A y \in S : x <= y

\* script[match.start():] for the first speaker label, when there is one
CutPreamble(t) ==
    LET at == {i \in 1..Len(t) : t[i] = "spk"}
    IN  IF at = {} THEN t ELSE SubSeq(t, Least(at), Len(t))

\* Where the lazy .*? of the preamble pattern ends, for the phrase at token m: before
\* the next speaker label, or at the end of the text, or before its last newline.
MetaEnd(t, m) ==
    Least({q \in m..Len(t) :
              \/ q = Len(t)
              \/ t[q + 1] = "spk"
              \/ (q = Len(t) - 1 /\ t[Len(t)] = "nl")})

RECURSIVE MetaLoop(_, _, _)
\* re.sub of (?:^|\n)I'?ll? (?:conduct|...).*?(?=Speaker [AB]:|$), from token i on
MetaLoop(t, i, out) ==
    IF i > Len(t) THEN out
    ELSE IF i = 1 /\ t[i] = "meta" THEN MetaLoop(t, MetaEnd(t, i) + 1, out)
    ELSE IF t[i] = "nl" /\ i < Len(t) /\ t[i + 1] = "meta"
    THEN MetaLoop(t, MetaEnd(t, i + 1) + 1, out)
    ELSE MetaLoop(t, i + 1, Append(out, t[i]))

RemoveMetaCommentary(t) == MetaLoop(t, 1, <<>>)

\* The starts of the matches of \n\s*<marker>: a newline from which whitespace
\* only leads to the marker.
MarkerMatches(t, marker) ==
    {i \in 1..Len(t) :
        /\ t[i] = "nl"
        /\ \E j \in (i + 1)..Len(t) :
               /\ t[j] = marker
               /\ \A k \in (i + 1)..(j - 1) : t[k] \in Whitespace}

\* The patterns of the sources cut in the order they are tried, and the cut at the
\* first match of the first pattern that matches.
CutSources(t) ==
    IF MarkerMatches(t, "src") # {}
    THEN SubSeq(t, 1, Least(MarkerMatches(t, "src")) - 1)
    ELSE IF MarkerMatches(t, "hsrc") # {}
    THEN SubSeq(t, 1, Least(MarkerMatches(t, "hsrc")) - 1)
    ELSE t

\* Token i is in a line made of dashes only (^-{3,}$, MULTILINE).
InSeparatorLine(t, i) ==
    /\ t[i] = "sep"
    /\ LET first == Least({a \in 1..i : \A k \in a..i : t[k] = "sep"})
           last == Least({b \in i..Len(t) : b = Len(t) \/ t[b + 1] # "sep"})
       IN  /\ (first = 1 \/ t[first - 1] = "nl")
           /\ (last = Len(t) \/ t[last + 1] = "nl")

RECURSIVE Keep(_, _, _)
\* the tokens of t from i on whose place is in set keep
Keep(t, i, keep) ==
    IF i > Len(t) THEN <<>>
    ELSE (IF i \in keep THEN <<t[i]>> ELSE <<>>) \o Keep(t, i + 1, keep)

RemoveSeparators(t) == Keep(t, 1, {i \in 1..Len(t) : ~InSeparatorLine(t, i)})

\* re.sub(r'\n{3,}', '\n\n'): of a run of newlines the first two stay
CollapseBlankLines(t) ==
    Keep(t, 1, {i \in 1..Len(t) :
                   ~(t[i] = "nl" /\ i > 2 /\ t[i - 1] = "nl" /\ t[i - 2] = "nl")})

\* script.strip()
StripScript(t) ==
    LET solid == {i \in 1..Len(t) : t[i] \notin Whitespace}
    IN  IF solid = {} THEN <<>>
        ELSE SubSeq(t, Least(solid), CHOOSE x \in solid : \A y \in solid : y <= x)

\* clean_script_for_audio, on the scripts of TokenScripts (which hold no search tags,
\* markdown headers, stage directions or word counts, so that the substitutions of
\* those leave them as they are).
clean_script_for_audio(s) ==
    StripScript(CollapseBlankLines(RemoveSeparators(
        CutSources(RemoveMetaCommentary(CutPreamble(s))))))

\* 'SOURCES FOUND' in script_for_audio.upper()
HasSourcesMarker(t) == \E i \in 1..Len(t) : t[i] \in {"src", "hsrc"}

\* The emergency cut of main: script_for_audio[:idx] when idx > 0, idx the place of
\* the first 'SOURCES FOUND'.
EmergencyCut(t) ==
    LET i == Least({k \in 1..Len(t) : t[k] \in {"src", "hsrc"}})
    IN  IF t[i] = "hsrc" THEN Append(SubSeq(t, 1, i - 1), "hashes")
        ELSE IF i > 1 THEN SubSeq(t, 1, i - 1)
        ELSE t

\* re.search(r'\n\d+\.\s+\*\*', script_for_audio)
NumberedList(t) == \E i \in 1..(Len(t) - 1) : t[i] = "nl" /\ t[i + 1] = "num"

NormalizerInit ==
    /\ raw_script \in TokenScripts
    /\ cleaned = <<>>
    /\ main_pc = "clean"
    /\ script_for_audio = <<>>
    /\ marker_at_check = FALSE

\* main: script_for_audio = clean_script_for_audio(script)
CleanScriptForAudio ==
    /\ main_pc = "clean"
    /\ cleaned' = <<clean_script_for_audio(raw_script)>>
    /\ script_for_audio' = clean_script_for_audio(raw_script)
    /\ main_pc' = "check"
    /\ UNCHANGED <<raw_script, marker_at_check>>

\* clean_script_for_audio applied to its own result
CleanAgain ==
    /\ Len(cleaned) = 1
    /\ cleaned' = Append(cleaned, clean_script_for_audio(cleaned[1]))
    /\ UNCHANGED <<raw_script, main_pc, script_for_audio, marker_at_check>>

\* main's final check up to the call of generate_audio: the emergency cut, and the
\* question asked when a numbered list is found (confirm: the answer is 'y').
MainFinalCheck(confirm) ==
    /\ main_pc = "check"
    /\ marker_at_check' = HasSourcesMarker(script_for_audio)
    /\ LET cut == IF HasSourcesMarker(script_for_audio)
                  THEN EmergencyCut(script_for_audio) ELSE script_for_audio
       IN  /\ script_for_audio' = cut
           /\ main_pc' = IF NumberedList(cut) /\ ~confirm THEN "aborted" ELSE "audio"
    /\ UNCHANGED <<raw_script, cleaned>>

NormalizerNext ==
    \/ CleanScriptForAudio /\ UNCHANGED notNormalizer
    \/ CleanAgain /\ UNCHANGED notNormalizer
    \/ \E confirm \in BOOLEAN : MainFinalCheck(confirm) /\ UNCHANGED notNormalizer

InitNormalizer ==
    NormalizerInit /\ ChunkerIdle /\ ExecutorIdle /\ GenerationIdle /\ ParserIdle /\ PlannerIdle
    /\ ContinuityIdle /\ TuneIdle

SpecNormalizer == InitNormalizer /\ [][NormalizerNext]_vars

\* ------------------------------------------------------------------ parsers

\* Bound of the lines parsed: the tokens of a line's text.
MaxTextToks == 4

\* The text after a speaker label is a sequence of tokens joined by single spaces:
\* a "tag" is '[name]', a "word" is the bare name, "empty" is '[]'. Of the tag names
\* the emotion table maps happy and sad to an emotion and neutral to None; zz is not
\* in the table. The word happy is also the name of a tag.
TagNames == {"happy", "sad", "neutral", "zz"}
WordTexts == {"hello", "happy"}

TextTokens ==
    [kind : {"tag"}, name : TagNames] \cup [kind : {"word"}, name : WordTexts]
    \cup {[kind |-> "empty", name |-> ""]}

ParsedLines ==
    [kind : {"A", "B", "cont"}, toks : SeqsUpTo(TextTokens, MaxTextToks)]

\* _get_api_emotion_map().get(tag.lower()); "None" is None
ApiEmotionKeepsUnsupported(name) ==
    CASE name = "happy" -> "positivity:high"
      [] name = "sad" -> "sadness:high"
      [] OTHER -> "neutral:none"

ApiEmotion(name) ==
    CASE name = "happy" -> "positivity:high"
      [] name = "sad" -> "sadness:high"
      [] name = "neutral" -> "None"
      [] OTHER -> "None"

RECURSIVE MapEmotions(_)
\* the loop 'for t in tags: api_emotion = map.get(t.lower()); if api_emotion: append'
MapEmotions(tags) ==
    IF tags = <<>> THEN <<>>
    ELSE (IF ApiEmotion(tags[1]) # "None" THEN <<ApiEmotion(tags[1])>> ELSE <<>>)
         \o MapEmotions(Tail(tags))

\* re.finditer(tag_pattern, text): the places of the tags
TagPlaces(t) == {i \in 1..Len(t) : t[i].kind = "tag"}

RECURSIVE TagNamesAt(_, _, _)
\* the names of the tags of t at the places of set at, in text order, from place i on
TagNamesAt(t, i, at) ==
    IF i > Len(t) THEN <<>>
    ELSE (IF i \in at THEN <<t[i].name>> ELSE <<>>) \o TagNamesAt(t, i + 1, at)

\* re.sub(tag_pattern, '', text).strip(): the text without its tags
WithoutTagsKeepsTags(t) == t
WithoutTags(t) == SelectSeq(t, LAMBDA tok : tok.kind # "tag")

\* The while loop of _split_text_at_emotions: it eats the leading '[...]' tokens and
\* sets first_non_tag_char to text.find(rest), rest being the text left, or to
\* len(text) when nothing is left. The place is a token's start (inside FALSE) or a
\* character inside the token (inside TRUE); find returns the FIRST occurrence of
\* rest, which for a rest of one word lies inside an earlier tag of that name.
FirstNonTagChar(t) ==
    LET k == Least({i \in 0..Len(t) : i = Len(t) \/ t[i + 1].kind = "word"})
        rest == SubSeq(t, k + 1, Len(t))
        earlier == {i \in 1..k : /\ Len(rest) = 1
                                 /\ t[i].kind = "tag"
                                 /\ t[i].name = rest[1].name}
    IN  IF rest = <<>> THEN [tok |-> Len(t) + 1, inside |-> FALSE]
        ELSE IF earlier # {} THEN [tok |-> Least(earlier), inside |-> TRUE]
        ELSE [tok |-> k + 1, inside |-> FALSE]

\* start < first_non_tag_char, for the token at place i
StartsBefore(i, place) == i < place.tok \/ (i = place.tok /\ place.inside)

\* segments.append((mapped_emotions, clean)) when clean is not empty
AppendSegment(segments, current_emotions, clean) ==
    IF clean # <<>>
    THEN Append(segments, [tags |-> current_emotions,
                           emotions |-> MapEmotions(current_emotions),
                           text |-> clean])
    ELSE segments

RECURSIVE SplitLoopKeepsEmotions(_, _, _, _, _, _)
SplitLoopKeepsEmotions(t, i, mid, segments, current_emotions, text_before) ==
    IF i > Len(t)
    THEN AppendSegment(segments, current_emotions, WithoutTags(text_before))
    ELSE IF i \in mid
    THEN SplitLoopKeepsEmotions(t, i + 1, mid,
                   AppendSegment(segments, current_emotions, WithoutTags(text_before)),
                   current_emotions, <<>>)
    ELSE SplitLoopKeepsEmotions(t, i + 1, mid, segments, current_emotions,
                   Append(text_before, t[i]))

RECURSIVE SplitLoop(_, _, _, _, _, _)
\* The loop over the mid-sentence tags and the text after the last of them, token
\* by token from place i on: a mid tag closes the text before it and starts the next
\* segment with itself as the only emotion.
SplitLoop(t, i, mid, segments, current_emotions, text_before) ==
    IF i > Len(t)
    THEN AppendSegment(segments, current_emotions, WithoutTags(text_before))
    ELSE IF i \in mid
    THEN SplitLoop(t, i + 1, mid,
                   AppendSegment(segments, current_emotions, WithoutTags(text_before)),
                   <<t[i].name>>, <<>>)
    ELSE SplitLoop(t, i + 1, mid, segments, current_emotions, Append(text_before, t[i]))

\* _extract_emotions
_extract_emotions(t) ==
    [tags |-> TagNamesAt(t, 1, TagPlaces(t)),
     emotions |-> MapEmotions(TagNamesAt(t, 1, TagPlaces(t))),
     text |-> WithoutTags(t)]

\* _split_text_at_emotions: the (emotions, clean_text) pairs; tags is the list the
\* emotions were mapped from.
_split_text_at_emotions(t) ==
    LET first_non_tag_char == FirstNonTagChar(t)
        start_places == {i \in TagPlaces(t) : StartsBefore(i, first_non_tag_char)}
        mid == TagPlaces(t) \ start_places
        segments == SplitLoop(t, 1, mid, <<>>, TagNamesAt(t, 1, start_places), <<>>)
    IN  IF TagPlaces(t) = {} THEN <<[tags |-> <<>>, emotions |-> <<>>, text |-> t]>>
        ELSE IF mid = {}
        THEN (IF _extract_emotions(t).text # <<>> THEN <<_extract_emotions(t)>> ELSE <<>>)
        ELSE IF segments # <<>> THEN segments
        ELSE <<[tags |-> <<>>, emotions |-> <<>>, text |-> t]>>

\* _create_segment: the transcript and the emotion control, "none" when there is
\* none (tags: what the emotions came from).
_create_segment(speaker, text, emotions, tags) ==
    [speaker |-> speaker,
     text |-> text,
     tags |-> tags,
     emotion |-> IF emotions # <<>> THEN emotions[1] ELSE "none"]

\* CartesiaProvider.parse_script_to_dialogue on a script of one line
CartesiaDialogue(line) ==
    IF line.kind \in {"A", "B"} /\ line.toks # <<>>
    THEN LET segments == SelectSeq(_split_text_at_emotions(line.toks),
                                   LAMBDA seg : seg.text # <<>>)
         IN  [k \in 1..Len(segments) |->
                 _create_segment(line.kind, segments[k].text, segments[k].emotions,
                                 segments[k].tags)]
    ELSE <<>>

\* ElevenLabsProvider.parse_script_to_dialogue on a script of one line: the text
\* after the label, as it is
ElevenLabsDialogue(line) ==
    IF line.kind \in {"A", "B"} /\ line.toks # <<>>
    THEN <<[speaker |-> line.kind, text |-> line.toks]>>
    ELSE <<>>

ParserInit ==
    /\ ps_line \in ParsedLines
    /\ ps_cartesia = [done |-> FALSE, dialogue |-> <<>>]
    /\ ps_eleven = [done |-> FALSE, dialogue |-> <<>>]

CartesiaParseScript ==
    /\ ~ps_cartesia.done
    /\ ps_cartesia' = [done |-> TRUE, dialogue |-> CartesiaDialogue(ps_line)]
    /\ UNCHANGED <<ps_line, ps_eleven>>

ElevenLabsParseScript ==
    /\ ~ps_eleven.done
    /\ ps_eleven' = [done |-> TRUE, dialogue |-> ElevenLabsDialogue(ps_line)]
    /\ UNCHANGED <<ps_line, ps_cartesia>>

ParserNext ==
    \/ CartesiaParseScript /\ UNCHANGED notParser
    \/ ElevenLabsParseScript /\ UNCHANGED notParser

InitParser ==
    ParserInit /\ ChunkerIdle /\ ExecutorIdle /\ GenerationIdle /\ NormalizerIdle /\ PlannerIdle
    /\ ContinuityIdle /\ TuneIdle

SpecParser == InitParser /\ [][ParserNext]_vars

\* ------------------------------------------------------------------ section plan

\* Bound of the plans: the target word counts 1..MaxPlanWords.
MaxPlanWords == 20

\* The inputs of the plan: the word counts of the bound and two of podcast size, the
\* per-call budgets, and the overshoot factors in hundredths (1.01, 1.4, 1.5). On
\* these the floating-point product (word_count / num_sections) * overshoot_factor
\* has the integer part of the exact product.
PlanWordCounts == (1..MaxPlanWords) \cup {1001, 1200}
PlanBudgets == {2, 3, 500}
OvershootFactors == {101, 140, 150}

\* num_sections = math.ceil(word_count / words_per_call)
plan_num_sections(W, B) == CeilDiv(W, B)

\* words_per_section = int((word_count / num_sections) * overshoot_factor), f the
\* factor in hundredths
words_per_section_rounded(W, B, f) ==
    (2 * W * f + plan_num_sections(W, B) * 100) \div (2 * plan_num_sections(W, B) * 100)

words_per_section_without_overshoot(W, B, f) == W \div plan_num_sections(W, B)

words_per_section(W, B, f) == (W * f) \div (plan_num_sections(W, B) * 100)

PlannerInit ==
    /\ plan_word_count \in PlanWordCounts
    /\ plan_words_per_call \in PlanBudgets
    /\ overshoot_factor \in OvershootFactors
    /\ plan = [done |-> FALSE, num_sections |-> 0, words_per_section |-> 0]

\* The plan at the head of generate_script_multi_call (and of generate_outline).
PlanSections ==
    /\ ~plan.done
    /\ plan' = [done |-> TRUE,
                num_sections |-> plan_num_sections(plan_word_count, plan_words_per_call),
                words_per_section |-> words_per_section(plan_word_count,
                                                        plan_words_per_call,
                                                        overshoot_factor)]
    /\ UNCHANGED <<plan_word_count, plan_words_per_call, overshoot_factor>>

PlannerNext == PlanSections /\ UNCHANGED notPlanner

InitPlanner ==
    PlannerInit /\ ChunkerIdle /\ ExecutorIdle /\ GenerationIdle /\ NormalizerIdle
    /\ ParserIdle /\ ContinuityIdle /\ TuneIdle

SpecPlanner == InitPlanner /\ [][PlannerNext]_vars

\* ------------------------------------------------------------------ continuity

\* The most words a section response holds.
MaxSectionWords == 150

\* The words kept as the next section's continuity context.
TailWords == 100

\* The word counts the section responses are drawn with.
SectionWordCounts == {1, TailWords - 1, TailWords, TailWords + 1, MaxSectionWords}

\* A text of the section loop: the words first..last of section sec's response;
\* verbatim: with the response's own whitespace (FALSE: the words joined by single
\* blanks); empty: the string ''. A text of no words that is not empty is whitespace.
NoneValue == [kind |-> "None"]
NoContext == [kind |-> "text", sec |-> 0, first |-> 1, last |-> 0,
              verbatim |-> TRUE, empty |-> TRUE]

ResponseText(n, k, empty) ==
    [kind |-> "text", sec |-> n, first |-> 1, last |-> k, verbatim |-> TRUE,
     empty |-> empty]

\* What generate_script_section can return for section n: None (the call raised),
\* '', whitespace only, or a text of k words.
SectionReplies(n) ==
    {NoneValue, ResponseText(n, 0, TRUE), ResponseText(n, 0, FALSE)}
    \cup {ResponseText(n, k, FALSE) : k \in SectionWordCounts}

\* Python's truth value of a text or None
Truthy(t) == t.kind # "None" /\ ~t.empty

\* len(text.split())
WordCount(t) == t.last - t.first + 1

\* continuity_context of generate_script_section: empty unless previous_section_end
ContinuityContext(previous_section_end) ==
    IF Truthy(previous_section_end) THEN previous_section_end ELSE NoContext

\* previous_ending after a section: ' '.join(words[-100:]) if len(words) > 100,
\* else section_text
PreviousEndingKeepsWhole(section_text) == section_text
PreviousEnding(section_text) ==
    IF WordCount(section_text) > TailWords
    THEN [kind |-> "text", sec |-> section_text.sec,
          first |-> section_text.last - TailWords + 1, last |-> section_text.last,
          verbatim |-> FALSE, empty |-> FALSE]
    ELSE section_text

ContinuityInit ==
    /\ mc_word_count \in GenWordCounts
    /\ mc_words_per_call \in GenWordsPerCall
    /\ mc_sections = <<>>
    /\ previous_ending = NoneValue
    /\ mc_requests = <<>>
    /\ mc_pc = "loop"

\* One iteration of generate_script_multi_call's loop: the request for the next
\* section with the continuity context, the abort on failure, the new tail.
GenerateScriptSection(section_text) ==
    /\ mc_pc = "loop"
    /\ LET section_num == Len(mc_sections) + 1 IN
       /\ section_text \in SectionReplies(section_num)
       /\ mc_requests' = Append(mc_requests,
                                [section_num |-> section_num,
                                 context |-> ContinuityContext(previous_ending)])
       /\ IF ~Truthy(section_text)
          THEN /\ mc_pc' = "returned"
               /\ UNCHANGED <<mc_sections, previous_ending>>
          ELSE /\ mc_sections' = Append(mc_sections, section_text)
               /\ previous_ending' = PreviousEnding(section_text)
               /\ mc_pc' = IF section_num < CeilDiv(mc_word_count, mc_words_per_call)
                           THEN "loop" ELSE "returned"
    /\ UNCHANGED <<mc_word_count, mc_words_per_call>>

ContinuityNext ==
    \/ \E section_text \in SectionReplies(Len(mc_sections) + 1) :
           GenerateScriptSection(section_text) /\ UNCHANGED notContinuity

InitContinuity ==
    ContinuityInit /\ ChunkerIdle /\ ExecutorIdle /\ GenerationIdle /\ NormalizerIdle
    /\ ParserIdle /\ PlannerIdle /\ TuneIdle

SpecContinuity == InitContinuity /\ [][ContinuityNext]_vars

\* ------------------------------------------------------------------ tune_audio

\* Bound of the segments tune_audio's parser hands to the per-speaker synthesis.
MaxTuneSegs == 3

\* A parsed segment: its speaker and its text, which the parser never leaves empty:
\* words, or bracketed tags only.
TuneSegments == [speaker : {"a", "b"}, text : {"words", "tags"}]

\* What a segment request can come back with: a status, or an exception.
TuneResponses == {"ok200", OkOther, "e500", "reset"}

\* Cartesia: re.sub(emotion_pattern, '', text).strip() is empty (if not clean_text);
\* ElevenLabs: if not text.strip()
TuneSkipped(p, seg) == p = "cartesia" /\ seg.text = "tags"

\* if response.status_code == 200: audio_parts.append(response.content)
TuneAppends(resp) == resp = "ok200"

TuneInit ==
    /\ tn_provider \in {"cartesia", "elevenlabs"}
    /\ tn_segments \in SeqsUpTo(TuneSegments, MaxTuneSegs)
    /\ tn_i = 1
    /\ tn_requests = <<>>
    /\ tn_audio_parts = <<>>
    /\ tn_ret = [ok |-> FALSE, audio |-> <<>>]
    /\ tn_pc = "loop"

\* One iteration of the segment loop: the segment is skipped, or requested and its
\* response body appended on status 200; on any other response the loop goes on.
TuneSegment(resp) ==
    /\ tn_pc = "loop"
    /\ tn_i <= Len(tn_segments)
    /\ IF TuneSkipped(tn_provider, tn_segments[tn_i])
       THEN UNCHANGED <<tn_requests, tn_audio_parts>>
       ELSE /\ tn_requests' = Append(tn_requests, [segment |-> tn_i, status |-> resp])
            /\ tn_audio_parts' = IF TuneAppends(resp)
                                 THEN Append(tn_audio_parts, tn_i)
                                 ELSE tn_audio_parts
    /\ tn_i' = tn_i + 1
    /\ UNCHANGED <<tn_provider, tn_segments, tn_ret, tn_pc>>

\* After the loop: b''.join(audio_parts) if audio_parts, else None.
TuneReturn ==
    /\ tn_pc = "loop"
    /\ tn_i > Len(tn_segments)
    /\ tn_ret' = IF tn_audio_parts # <<>>
                 THEN [ok |-> TRUE, audio |-> tn_audio_parts]
                 ELSE [ok |-> FALSE, audio |-> <<>>]
    /\ tn_pc' = "returned"
    /\ UNCHANGED <<tn_provider, tn_segments, tn_i, tn_requests, tn_audio_parts>>

TuneNext ==
    \/ \E resp \in TuneResponses : TuneSegment(resp) /\ UNCHANGED notTune
    \/ TuneReturn /\ UNCHANGED notTune

InitTune ==
    TuneInit /\ ChunkerIdle /\ ExecutorIdle /\ GenerationIdle /\ NormalizerIdle
    /\ ParserIdle /\ PlannerIdle /\ ContinuityIdle

SpecTune == InitTune /\ [][TuneNext]_vars

\* ------------------------------------------------------------------ claims

\* C6: every chunk chunk_dialogue returns has a summed text length of at most the
\* budget, except a chunk of exactly one segment whose own length exceeds the budget.
C6_ChunkBudget ==
    cd_pc = "done" =>
        \A c \in 1..Len(cd_chunks) :
            \/ SumLen(cd_chunks[c]) <= cd_max_chars
            \/ /\ Len(cd_chunks[c]) = 1
               /\ cd_chunks[c][1].len > cd_max_chars

\* C6 witness: a call that returned both a multi-segment chunk filled within the
\* budget and a single-segment chunk over the budget.
C6_Witness ==
    /\ cd_pc = "done"
    /\ \E c \in 1..Len(cd_chunks) : Len(cd_chunks[c]) > 1 /\ SumLen(cd_chunks[c]) > 0
    /\ \E c \in 1..Len(cd_chunks) :
           Len(cd_chunks[c]) = 1 /\ cd_chunks[c][1].len > cd_max_chars

\* C7: the chunks, concatenated in order, are exactly the input segment sequence,
\* and every chunk is non-empty (so an empty input gives no chunks).
C7_ChunksPartitionInput ==
    cd_pc = "done" =>
        /\ Flatten(cd_chunks) = cd_inputs
        /\ \A c \in 1..Len(cd_chunks) : cd_chunks[c] # <<>>

\* C7 witness: a call on at least three segments that returned several chunks.
C7_Witness ==
    /\ cd_pc = "done"
    /\ Len(cd_inputs) >= 3
    /\ Len(cd_chunks) >= 2
    /\ \E c \in 1..Len(cd_chunks) : Len(cd_chunks[c]) >= 2

\* ---- the executor's claims

Terminal == ex_pc \in {"returned", "main_done"}

\* the number of requests issued for chunk k
ReqsFor(k) == Cardinality({j \in 1..Len(requests) : requests[j].chunk = k})

LastReq == requests[Len(requests)]

\* the audio parts are exactly the bodies of chunks 1..n, one each, in order
PartsExactly(n) ==
    /\ Len(audio_parts) = n
    /\ \A k \in 1..n : Len(audio_parts[k]) = 1 /\ audio_parts[k][1].chunk = k

\* chunk k failed: it was requested and its latest response is an error, or it has
\* no audio part, or the part kept for it is the body of an error response
FailedChunk(k) ==
    /\ ReqsFor(k) > 0
    /\ \/ LastReq.chunk = k /\ last_resp \in HttpErrors \cup NetErrors
       \/ \A p \in 1..Len(audio_parts) : audio_parts[p][1].chunk # k
       \/ \E p \in 1..Len(audio_parts) :
              audio_parts[p][1].chunk = k /\ audio_parts[p][1].status \in HttpErrors

\* C1: a 4xx response to a chunk request aborts at once: the run has returned no
\* audio and no further request follows it, in either provider.
C1_Abort4xx ==
    last_resp = "e4xx" => (Terminal /\ ~ret.ok)

\* C2: a retryable failure (5xx, connection reset, timeout) on an attempt that is
\* not the last allowed one is followed by another request for the same chunk, in
\* either provider; so such a failure is fatal only on the last attempt.
C2_RetryableRetried ==
    (/\ requests # <<>>
     /\ last_resp \in {"e500", "e5xx", "reset", "connect_timeout", "read_timeout"}
     /\ LastReq.attempt < 2)
    => (/\ ex_pc = "request"
        /\ chunk_i = LastReq.chunk
        /\ attempt = LastReq.attempt + 1)

\* C3: at most 3 requests per chunk, and the executor is at chunk i only with exactly
\* one part appended for each chunk before i; a finished run either has one part per
\* chunk, or was aborted at a chunk that was requested and left no part.
C3_BoundedAttemptsOneOutcome ==
    /\ \A k \in 1..Len(chunks) : ReqsFor(k) <= 3
    /\ ex_pc \in {"chunk", "request"} => PartsExactly(chunk_i - 1)
    /\ ex_pc = "combine" => PartsExactly(Len(chunks))
    /\ (Terminal /\ ret.ok) => PartsExactly(Len(chunks))
    /\ (Terminal /\ ~ret.ok /\ dialogue # <<>>) =>
           (PartsExactly(chunk_i - 1) /\ ReqsFor(chunk_i) >= 1)

\* C3 witness: a chunk took three requests, its third succeeded, and the executor
\* went on to the next chunk.
C3_Witness ==
    /\ ex_pc = "request"
    /\ chunk_i >= 2
    /\ ReqsFor(chunk_i - 1) = 3
    /\ PartsExactly(chunk_i - 1)

\* C4: once a chunk has failed no later chunk is requested, and the finished run
\* returned no audio and main wrote no audio file, whatever succeeded before.
C4_FailedChunkNoAudio ==
    /\ \A k \in 1..Len(chunks) :
           FailedChunk(k) =>
               /\ \A j \in 1..Len(requests) : requests[j].chunk <= k
               /\ Terminal => (~ret.ok /\ ~file_written)
    /\ ~ret.ok => ~file_written

\* C4 witness: main is done after a run whose first chunk was synthesized and whose
\* second chunk failed.
C4_Witness ==
    /\ ex_pc = "main_done"
    /\ Len(audio_parts) >= 1
    /\ FailedChunk(2)
    /\ ~FailedChunk(1)

\* C5: requests go in chunk order, chunk k+1 is requested only when chunks 1..k have
\* their part appended, and a successful run holds one body per chunk in chunk order
\* (ElevenLabs returns their concatenation, Cartesia the encoding of that list).
C5_ChunkOrder ==
    /\ requests # <<>> => requests[1].chunk = 1
    /\ \A j \in 1..(Len(requests) - 1) :
           requests[j + 1].chunk \in {requests[j].chunk, requests[j].chunk + 1}
    /\ \A j \in 1..Len(requests) : \A k \in 1..(requests[j].chunk - 1) :
           /\ Len(audio_parts) >= k
           /\ audio_parts[k][1].chunk = k
           /\ audio_parts[k][1].status \notin HttpErrors
    /\ (Terminal /\ ret.ok) =>
           /\ PartsExactly(Len(chunks))
           /\ provider = "elevenlabs" => ret.audio = Flatten(audio_parts)
           /\ provider = "cartesia" => ret.audio = <<[mp3_of |-> audio_parts]>>

\* C5 witness: an ElevenLabs run of three chunks returned audio.
C5_Witness ==
    /\ Terminal
    /\ ret.ok
    /\ provider = "elevenlabs"
    /\ Len(chunks) >= 3
    /\ Len(ret.audio) = Len(chunks)

\* C8: when parsing yields no dialogue segment, generate_audio has returned (None, 0)
\* without issuing a request.
C8_NoDialogueNoRequest ==
    (ex_pc \notin {"idle", "call"} /\ dialogue = <<>>) =>
        /\ Terminal
        /\ ~ret.ok
        /\ ret.chars = 0
        /\ requests = <<>>
        /\ ~file_written

\* C8 witness: a script of several lines, none with a speaker label, was handed to
\* generate_audio, which returned.
C8_Witness ==
    /\ ex_pc = "returned"
    /\ Len(script) >= 2
    /\ \A k \in 1..Len(script) : script[k].kind \notin {"A", "B"}
    /\ dialogue = <<>>
    /\ ~ret.ok

\* C20: when a project name is given, the debug artifact of chunk k is written
\* before the first request for chunk k, so that after a failure at chunk k the
\* artifacts of chunks 1..k all exist.
C20_DebugArtifactBeforeRequest ==
    project_name =>
        /\ ex_pc = "request" => chunk_i \in debug_files
        /\ \A j \in 1..Len(requests) : requests[j].chunk \in debug_files
        /\ \A k \in 1..Len(chunks) :
               FailedChunk(k) => \A c \in 1..k : c \in debug_files

\* C20 witness: with a project name, the run has returned after chunk 2 failed, and
\* the artifacts of chunks 1 and 2 exist.
C20_Witness ==
    /\ project_name
    /\ ex_pc = "returned"
    /\ FailedChunk(2)
    /\ ~FailedChunk(1)
    /\ debug_files = {1, 2}

\* ---- the generation's claims

\* a occurs in b as a run of consecutive lines
IsInfix(a, b) ==
    \E k \in 0..(Len(b) - Len(a)) : SubSeq(b, k + 1, k + Len(a)) = a

\* C9: if the generation of section i fails, the run has returned no script, no
\* section after i was requested, section i was requested once, and no transition
\* rewrite was requested.
C9_SectionFailureFatal ==
    failed_section # 0 =>
        /\ gen_pc = "returned"
        /\ ~gen_ret.ok
        /\ gen_ret.script = <<>>
        /\ \A r \in 1..Len(section_requests) : section_requests[r] <= failed_section
        /\ Cardinality({r \in 1..Len(section_requests) :
                            section_requests[r] = failed_section}) = 1
        /\ trans_log = <<>>

\* C9 witness: of three sections the first was generated and the second failed.
C9_Witness ==
    /\ num_sections = 3
    /\ failed_section = 2
    /\ Len(sections) = 1
    /\ gen_pc = "returned"

\* C10: a failed rewrite call yields the before-window lines followed by the
\* after-window lines unchanged; every join is still processed, and the run returns
\* a script, which holds those lines.
C10_TransitionFailureFallsBack ==
    /\ \A t \in 1..Len(trans_log) :
           trans_log[t].failed =>
               NonBlank(trans_log[t].out) =
                   LastN(parse_script_to_segments(sections[t]), 4)
                   \o FirstN(parse_script_to_segments(sections[t + 1]), 4)
    /\ (gen_pc = "returned" /\ Len(sections) = num_sections /\ failed_section = 0) =>
           /\ gen_ret.ok
           /\ Len(trans_log) = num_sections - 1
           /\ \A t \in 1..Len(trans_log) :
                  /\ trans_log[t].join = t
                  /\ trans_log[t].failed => IsInfix(NonBlank(trans_log[t].out), gen_ret.script)

\* C10 witness: of two joins the first rewrite failed, the second was still
\* requested, and a script was returned.
C10_Witness ==
    /\ gen_pc = "returned"
    /\ gen_ret.ok
    /\ Len(trans_log) = 2
    /\ trans_log[1].failed
    /\ ~trans_log[2].failed
    /\ Len(NonBlank(trans_log[1].out)) = 8

\* no two consecutive segments have the same speaker
NoAdjacentSame(segments) ==
    \A k \in 1..(Len(segments) - 1) : segments[k].kind # segments[k + 1].kind

\* section t ends and section t + 1 starts with the same speaker
SameSpeakerAtJoin(t) ==
    LET segments_before == parse_script_to_segments(sections[t])
        segments_after == parse_script_to_segments(sections[t + 1])
    IN  /\ segments_before # <<>>
        /\ segments_after # <<>>
        /\ segments_before[Len(segments_before)].kind = segments_after[1].kind

\* C11: when a section ends and the next starts with the same speaker, the window
\* the synthesizer puts into the script for that join, re-parsed into segments, has
\* no two adjacent segments of the same speaker.
C11_NoCollisionAtJoin ==
    \A t \in 1..Len(trans_log) :
        SameSpeakerAtJoin(t) =>
            NoAdjacentSame(parse_script_to_segments(trans_log[t].out))

\* ---- the normalizer's claims

C19_NormalizationIdempotent ==
    Len(cleaned) = 2 => cleaned[2] = cleaned[1]

\* ---- the parsers' claims

\* the line parsed is a speaker's line with text, and the Cartesia parser has run
CartesiaParsedSpeakerLine ==
    /\ ps_cartesia.done
    /\ ps_line.kind \in {"A", "B"}
    /\ ps_line.toks # <<>>

\* a tag comes after a word of the text
TagAfterText(t) ==
    \E i, j \in 1..Len(t) : i < j /\ t[i].kind = "word" /\ t[j].kind = "tag"

\* the tags of t that come after its first word
SplitPoints(t) ==
    {j \in 1..Len(t) : t[j].kind = "tag" /\ \E i \in 1..(j - 1) : t[i].kind = "word"}

\* the tokens of t from place a to place b that are not tags
TextBetween(t, a, b) == SelectSeq(SubSeq(t, a, b), LAMBDA tok : tok.kind # "tag")

\* the names of the tags of t from place a to place b
TagsBetween(t, a, b) ==
    LET tags == SelectSeq(SubSeq(t, a, b), LAMBDA tok : tok.kind = "tag")
    IN  [k \in 1..Len(tags) |-> tags[k].name]

RECURSIVE RunsFrom(_, _, _)
\* The runs of text of speaker's line t that its split points delimit, from split
\* point b on (0: the start of the line), each with the tag before it: the leading
\* tags for the first run, the split point's tag for the others.
RunsFrom(speaker, t, b) ==
    LET later == {c \in SplitPoints(t) : c > b}
        nxt == IF later = {} THEN Len(t) + 1 ELSE Least(later)
        run == TextBetween(t, b + 1, nxt - 1)
        carried == IF b = 0 THEN TagsBetween(t, 1, nxt - 1) ELSE <<t[b].name>>
    IN  (IF run # <<>>
         THEN <<[speaker |-> speaker, text |-> run, tags |-> carried]>>
         ELSE <<>>)
        \o (IF later = {} THEN <<>> ELSE RunsFrom(speaker, t, nxt))

\* what the claims look at in a segment
SegmentView(seg) == [speaker |-> seg.speaker, text |-> seg.text, tags |-> seg.tags]

\* 'Speaker A: [happy] hello [sad] hello'
C13_ExampleLine ==
    [kind |-> "A",
     toks |-> <<[kind |-> "tag", name |-> "happy"], [kind |-> "word", name |-> "hello"],
                [kind |-> "tag", name |-> "sad"], [kind |-> "word", name |-> "hello"]>>]

\* C13: for a speaker line with a tag after some spoken text, the Cartesia parser
\* emits one segment per tag-delimited run of non-empty text, in text order, all of
\* the line's speaker, each carrying the tag that precedes it; the example line
\* yields exactly two segments of speaker A, the first 'hello' carrying happy and the
\* second carrying sad.
C13_MidTagSplits ==
    (CartesiaParsedSpeakerLine /\ TagAfterText(ps_line.toks)) =>
        LET d == ps_cartesia.dialogue
            runs == RunsFrom(ps_line.kind, ps_line.toks, 0)
        IN  /\ Len(d) = Len(runs)
            /\ \A k \in 1..Len(d) : SegmentView(d[k]) = runs[k]
            /\ ps_line = C13_ExampleLine =>
                   /\ Len(d) = 2
                   /\ d[1].tags = <<"happy">> /\ d[1].emotion = "positivity:high"
                   /\ d[2].tags = <<"sad">> /\ d[2].emotion = "sadness:high"
                   /\ d[1].text = <<[kind |-> "word", name |-> "hello"]>>
                   /\ d[2].text = d[1].text

\* C13 witness: the example line has been parsed into two segments.
C13_Witness ==
    /\ ps_cartesia.done
    /\ ps_line = C13_ExampleLine
    /\ Len(ps_cartesia.dialogue) = 2

\* the tags of the line all come before its text, and it has both
TagsOnlyLeading(t) ==
    /\ \E i \in 1..Len(t) : t[i].kind = "word"
    /\ \E i \in 1..Len(t) : t[i].kind = "tag"
    /\ \A i \in 1..Len(t) : t[i].kind # "empty"
    /\ ~TagAfterText(t)

\* C14: for a speaker line whose tags all precede the spoken text, the Cartesia
\* parser yields exactly one segment, whose tags are the line's tags in their order
\* and whose text holds no bracket markup.
C14_LeadingTagsOneSegment ==
    (CartesiaParsedSpeakerLine /\ TagsOnlyLeading(ps_line.toks)) =>
        LET d == ps_cartesia.dialogue
            t == ps_line.toks
        IN  /\ Len(d) = 1
            /\ d[1].tags = TagsBetween(t, 1, Len(t))
            /\ \A i \in 1..Len(d[1].text) : d[1].text[i].kind = "word"

\* the text of no segment of dialogue d holds a tag
NoTagInText(d) ==
    \A k \in 1..Len(d) : \A i \in 1..Len(d[k].text) : d[k].text[i].kind # "tag"

\* C15 as stated: the text of every segment is free of [tag] markup, for the
\* ElevenLabs parser and for the Cartesia parser.
C15_NoMarkupInText ==
    /\ ps_cartesia.done => NoTagInText(ps_cartesia.dialogue)
    /\ ps_eleven.done => NoTagInText(ps_eleven.dialogue)

\* C15 amended: the text of every segment of the Cartesia parser is free of [tag]
\* markup and holds the line's other tokens in their order; the ElevenLabs parser
\* keeps the text after the label as it is, tags included.
C15_CartesiaTextHasNoTags ==
    /\ ps_cartesia.done =>
           /\ NoTagInText(ps_cartesia.dialogue)
           /\ ps_line.kind \in {"A", "B"} =>
                  Flatten([k \in 1..Len(ps_cartesia.dialogue) |->
                              ps_cartesia.dialogue[k].text])
                      = TextBetween(ps_line.toks, 1, Len(ps_line.toks))
    /\ (ps_eleven.done /\ ps_line.kind \in {"A", "B"} /\ ps_line.toks # <<>>) =>
           /\ Len(ps_eleven.dialogue) = 1
           /\ ps_eleven.dialogue[1].text = ps_line.toks

\* C15 witness: a line with a tag before and a tag after its first word has been
\* parsed by both parsers, the Cartesia parser giving two segments.
C15_Witness ==
    /\ ps_cartesia.done /\ ps_eleven.done
    /\ Len(ps_line.toks) = 4
    /\ ps_line.toks[1].kind = "tag"
    /\ ps_line.toks[3].kind = "tag"
    /\ Len(ps_cartesia.dialogue) = 2
    /\ Len(ps_eleven.dialogue) = 1

\* The tags the emotion table does not map to an emotion: neutral is mapped to
\* None, zz is not in the table.
UnsupportedTags == {"neutral", "zz"}

\* the emotion of the first tag of a list that the table supports, "none" if none
FirstSupported(tags) ==
    LET at == {i \in 1..Len(tags) : tags[i] \notin UnsupportedTags}
    IN  IF at = {} THEN "none"
        ELSE IF tags[Least(at)] = "happy" THEN "positivity:high" ELSE "sadness:high"

\* C16: a tag that the emotion table lacks or maps to None is dropped: the segment
\* is emitted with its text, its emotion is that of its first supported tag, and it
\* carries no emotion control when none of its tags is supported.
C16_UnsupportedTagsDropped ==
    CartesiaParsedSpeakerLine =>
        LET d == ps_cartesia.dialogue
            t == ps_line.toks
        IN  /\ Flatten([k \in 1..Len(d) |-> d[k].text]) = TextBetween(t, 1, Len(t))
            /\ \A k \in 1..Len(d) :
                   /\ d[k].text # <<>>
                   /\ d[k].emotion = FirstSupported(d[k].tags)
                   /\ (\A i \in 1..Len(d[k].tags) : d[k].tags[i] \in UnsupportedTags)
                          => d[k].emotion = "none"

\* C16 witness: a segment whose tags are an unknown tag and a None-mapped tag has
\* been emitted with its text and no emotion control.
C16_Witness ==
    /\ ps_cartesia.done
    /\ Len(ps_cartesia.dialogue) = 1
    /\ ps_cartesia.dialogue[1].tags = <<"zz", "neutral">>
    /\ ps_cartesia.dialogue[1].emotion = "none"
    /\ ps_cartesia.dialogue[1].text # <<>>

\* ---- the section plan's claims

\* num_sections is ceil(W / B): the least number of calls of B words that cover W
SectionsAreCeiling ==
    /\ plan.num_sections * plan_words_per_call >= plan_word_count
    /\ (plan.num_sections - 1) * plan_words_per_call < plan_word_count

\* v is x rounded to the nearest integer (a tie to the even one), x = num / den
IsRounded(v, num, den) ==
    /\ 2 * den * v - den <= 2 * num
    /\ 2 * num <= 2 * den * v + den
    /\ (2 * num = 2 * den * v - den \/ 2 * num = 2 * den * v + den) => v % 2 = 0

\* C17 as stated: num_sections = ceil(W / B) and
\* words_per_section = round((W / num_sections) * f).
C17_PlanRounds ==
    plan.done =>
        /\ SectionsAreCeiling
        /\ IsRounded(plan.words_per_section, plan_word_count * overshoot_factor,
                     plan.num_sections * 100)

\* C17 amended: num_sections = ceil(W / B) and words_per_section is the integer part
\* of (W / num_sections) * f; W = 1200, B = 500, f = 1.4 gives 3 sections of 560
\* words.
C17_PlanTruncates ==
    plan.done =>
        /\ SectionsAreCeiling
        /\ plan.words_per_section * plan.num_sections * 100
               <= plan_word_count * overshoot_factor
        /\ plan_word_count * overshoot_factor
               < (plan.words_per_section + 1) * plan.num_sections * 100
        /\ (plan_word_count = 1200 /\ plan_words_per_call = 500 /\ overshoot_factor = 140)
               => (plan.num_sections = 3 /\ plan.words_per_section = 560)

\* C17 witness: the plan for W = 1200, B = 500, f = 1.4 is 3 sections of 560 words.
C17_Witness ==
    /\ plan.done
    /\ plan_word_count = 1200 /\ plan_words_per_call = 500 /\ overshoot_factor = 140
    /\ plan.num_sections = 3
    /\ plan.words_per_section = 560

\* C18 as stated: the plan never under-covers the target,
\* words_per_section * num_sections >= W.
C18_PlanCoversTarget ==
    plan.done => plan.words_per_section * plan.num_sections >= plan_word_count

\* the overshoot W * (f - 1) is at least one word per section
OvershootOfAWordPerSection ==
    plan_word_count * (overshoot_factor - 100) >= plan.num_sections * 100

\* C18 amended: when the overshoot is at least one word per section, the plan does
\* not under-cover the target.
C18_PlanCoversTargetGivenOvershoot ==
    (plan.done /\ OvershootOfAWordPerSection) =>
        plan.words_per_section * plan.num_sections >= plan_word_count

\* C18 witness: a plan of several sections with an overshoot of just one word per
\* section (W = 5, B = 3, f = 1.4: 2 sections of 3 words).
C18_Witness ==
    /\ plan.done
    /\ plan_word_count = 5 /\ plan_words_per_call = 3 /\ overshoot_factor = 140
    /\ OvershootOfAWordPerSection
    /\ plan.num_sections = 2
    /\ plan.words_per_section = 3

\* ---- the transition synthesis's claims

\* The run returned a script assembled by synthesize_transitions.
Assembled == gen_pc = "returned" /\ gen_ret.ok /\ Len(sections) > 1

\* The number of the utterance line j of a text belongs to: the speaker lines up to
\* and including line j (0: before the first speaker line).
SegmentOf(text, j) ==
    Cardinality({h \in 1..j : text[h].kind \in {"A", "B"}})

\* The utterances of section i (of total, with n utterances) outside its boundary
\* windows: all but the last 4 for the first section, all but the first 4 for the
\* last, all but the first 4 and the last 4 for a middle one.
OutsideWindows(i, total, n) ==
    { g \in 1..n : /\ (i > 1 => g > 4)
                   /\ (i < total => g <= n - 4) }

\* The lines of section i outside its boundary windows, continuation lines included.
KeptLines(i) ==
    LET text == sections[i]
        n == Len(parse_script_to_segments(text))
        keep == OutsideWindows(i, Len(sections), n)
    IN  SelectSeq(text, LAMBDA l : l.kind # "blank" /\ SegmentOf(text, l.idx) \in keep)

\* The lines of a script that came from outside the boundary windows of a section.
FromOutsideWindows(final_script) ==
    SelectSeq(final_script, LAMBDA l :
        /\ l.sec \in 1..Len(sections)
        /\ l.idx \in 1..Len(sections[l.sec])
        /\ SegmentOf(sections[l.sec], l.idx)
               \in OutsideWindows(l.sec, Len(sections),
                                  Len(parse_script_to_segments(sections[l.sec]))))

\* C21: the segments outside every section's boundary windows appear in the final
\* script unchanged, with their continuation lines and in the same relative order,
\* whatever the rewrite calls returned.
C21_KeptSegmentsVerbatim ==
    Assembled =>
        FromOutsideWindows(gen_ret.script)
            = Flatten([i \in 1..Len(sections) |-> KeptLines(i)])

\* Line l of the final script belongs to the transition window joining sections j
\* and j + 1: it is of the last 4 utterances of section j, of the first 4 of section
\* j + 1, or the bridging line the rewrite of join j added.
InTransition(l, j) ==
    \/ l.sec = 0 /\ l.kind # "blank" /\ l.idx = j
    \/ /\ l.sec = j
       /\ SegmentOf(sections[j], l.idx)
              > Len(parse_script_to_segments(sections[j])) - Window
    \/ /\ l.sec = j + 1
       /\ SegmentOf(sections[j + 1], l.idx) \in 1..Window

\* Line l of the final script belongs to the retained middle of middle section i.
InMiddle(l, i) ==
    /\ l.sec = i
    /\ SegmentOf(sections[i], l.idx)
           \in OutsideWindows(i, Len(sections),
                              Len(parse_script_to_segments(sections[i])))

\* C22: in the assembled script the retained middle of each middle section i comes
\* after the transition window joining sections i-1 and i and before the transition
\* window joining sections i and i+1.
C22_PartsInSectionOrder ==
    Assembled =>
        \A i \in 2..(Len(sections) - 1) :
            \A p, q \in 1..Len(gen_ret.script) :
                InMiddle(gen_ret.script[p], i) =>
                    /\ InTransition(gen_ret.script[q], i - 1) => q < p
                    /\ InTransition(gen_ret.script[q], i) => p < q

\* Every rewrite call of the run fell back to the naive concatenation.
AllFellBack == \A j \in 1..Len(trans_log) : trans_log[j].failed

\* The number of times a line occurs in a text.
Occurrences(l, text) == Cardinality({p \in 1..Len(text) : text[p] = l})

\* C23: when every rewrite call falls back to naive concatenation, the assembled
\* script holds each speaker segment of the input sections exactly once, for
\* sections of any length.
C23_EachSegmentOnce ==
    (Assembled /\ AllFellBack) =>
        \A i \in 1..Len(sections) :
            \A j \in 1..Len(sections[i]) :
                sections[i][j].kind \in {"A", "B"} =>
                    Occurrences(sections[i][j], gen_ret.script) = 1

\* C24: for N generated sections exactly N-1 rewrite calls are made, none when
\* N = 1, in join order, and the first of them only after all N sections have been
\* generated.
C24_RewriteCallsPerJoin ==
    /\ \A j \in 1..Len(trans_log) : trans_log[j].join = j
    /\ Len(trans_log) <= num_sections - 1
    /\ trans_log # <<>> =>
           /\ Len(sections) = num_sections
           /\ section_requests = [n \in 1..num_sections |-> n]
    /\ (gen_pc = "returned" /\ gen_ret.ok) =>
           /\ Len(sections) = num_sections
           /\ Len(trans_log) = num_sections - 1

\* C24 witness: a run of three sections returned its script after two rewrite calls.
C24_Witness ==
    /\ gen_pc = "returned"
    /\ gen_ret.ok
    /\ Len(sections) = 3
    /\ Len(trans_log) = 2

\* ---- the continuity's claims

\* The last n words of a text, joined by single blanks.
LastWords(t, n) ==
    [kind |-> "text", sec |-> t.sec, first |-> t.last - n + 1, last |-> t.last,
     verbatim |-> FALSE, empty |-> FALSE]

RECURSIVE MergeContinuations(_, _)
\* The script with every continuation line that follows a speaker-labelled line
\* written at the end of that speaker's text, and the lines that are not spoken
\* (blank lines, headers, text before the first speaker label) left out.
MergeContinuations(lines, merged) ==
    IF lines = <<>> THEN merged
    ELSE LET line == lines[1] IN
         IF line.kind \in {"A", "B"}
         THEN MergeContinuations(Tail(lines), Append(merged, line))
         ELSE IF line.kind = "cont" /\ merged # <<>>
         THEN MergeContinuations(
                  Tail(lines),
                  [merged EXCEPT ![Len(merged)] =
                       Line(merged[Len(merged)].kind,
                            merged[Len(merged)].toks \o line.toks)])
         ELSE MergeContinuations(Tail(lines), merged)

\* C26: in each provider's parser a line that follows a speaker-labelled line and is
\* neither a speaker label nor a header/separator has its text appended to that
\* speaker's current segment: the dialogue is the one of the script with those lines
\* written on their speaker's line.
C26_ContinuationAppended ==
    ex_pc \notin {"idle", "call"} =>
        dialogue = IF provider = "elevenlabs"
                   THEN ElevenLabsParse(MergeContinuations(script, <<>>))
                   ELSE CartesiaParse(MergeContinuations(script, <<>>))

\* ---- the executor's claims on payloads and response bodies

\* The payload of the j-th request issued.
Payload(j) == chunks[requests[j].chunk]

\* C27 as stated: every payload the ElevenLabs executor sends has a summed text
\* length of at most the 4500-character chunk budget, unless it holds exactly one
\* segment.
C27_PayloadWithinBudget ==
    provider = "elevenlabs" =>
        \A j \in 1..Len(requests) :
            SumLen(Payload(j)) <= ChunkBudget \/ Len(Payload(j)) = 1

\* C27 amended: every payload the ElevenLabs executor sends has a summed text length
\* of at most the 5000 characters above which the dialogue is chunked, and of at
\* most the 4500-character budget when the dialogue was chunked, unless it holds
\* exactly one segment.
C27_PayloadWithinThreshold ==
    provider = "elevenlabs" =>
        \A j \in 1..Len(requests) :
            \/ Len(Payload(j)) = 1
            \/ /\ SumLen(Payload(j)) <= ChunkThreshold
               /\ SumLen(dialogue) > ChunkThreshold => SumLen(Payload(j)) <= ChunkBudget

\* C27 witness: the ElevenLabs executor sent a payload of several segments with more
\* than 4500 and no more than 5000 characters.
C27_Witness ==
    /\ provider = "elevenlabs"
    /\ requests # <<>>
    /\ Len(Payload(1)) > 1
    /\ SumLen(Payload(1)) > ChunkBudget
    /\ SumLen(Payload(1)) <= ChunkThreshold

\* C28: the ElevenLabs executor appends a response body to the audio only when the
\* response status is 200: no byte of the accumulated or the returned audio comes
\* from a response with another status.
C28_OnlyStatus200Appended ==
    provider = "elevenlabs" =>
        /\ \A p \in 1..Len(audio_parts) :
               \A b \in 1..Len(audio_parts[p]) : audio_parts[p][b].status = "ok200"
        /\ \A b \in 1..Len(ret.audio) : ret.audio[b].status = "ok200"

\* ---- tune_audio's claim

\* C29: the per-speaker synthesis returns audio only if every segment with non-empty
\* text was synthesized successfully: the returned audio omits no such segment.
C29_NoAudioOnFailedSegment ==
    (tn_pc = "returned" /\ tn_ret.ok) =>
        \A k \in 1..Len(tn_segments) :
            ~TuneSkipped(tn_provider, tn_segments[k]) =>
                \E p \in 1..Len(tn_ret.audio) : tn_ret.audio[p] = k

\* ---- the collision claim

\* The boundary windows of join j: the last 4 segments of section j and the first 4
\* of section j + 1, or all of them when there are fewer.
WindowBefore(j) == LastN(parse_script_to_segments(sections[j]), Window)
WindowAfter(j) == FirstN(parse_script_to_segments(sections[j + 1]), Window)

\* C30: synthesize_single_transition flags a collision exactly when both boundary
\* windows are non-empty and the last segment of the before-window has the speaker
\* of the first segment of the after-window; with an empty window none is flagged.
C30_CollisionExactly ==
    \A j \in 1..Len(trans_log) :
        trans_log[j].collision <=>
            /\ WindowBefore(j) # <<>>
            /\ WindowAfter(j) # <<>>
            /\ WindowBefore(j)[Len(WindowBefore(j))].kind = WindowAfter(j)[1].kind

====
